---- MODULE Spec2Model ----
(***************************************************************************)
(* Training and evaluation orchestration of rtdetr_pytorch/src/zoo/train.py *)
(* fit: the epoch loop, the learning-rate schedule, the rank-gated          *)
(*      checkpoint write, run by one process per device.                    *)
(* val: weight loading, the per-batch accumulator updates, the cross-process*)
(*      synchronisation and the summary.                                    *)
(***************************************************************************)
EXTENDS Integers, Sequences, FiniteSets, TLC

\* ------------------------------------------------------------------ bounds
MaxEpoch == 4      \* largest epoch budget (fit's `epoch` argument) explored
MaxProcs == 2      \* largest number of worker processes explored
NumBatches == 2    \* batches (optimizer steps) of one training pass

MaxImages == 2     \* distinct image identifiers of the validation set

Procs == 0 .. MaxProcs - 1
ImageIds == 1 .. MaxImages
None == 0          \* weight_path = None; weight_path = k stands for save_dir/k.pth

VARIABLES
    cfg,            \* the arguments of fit and the process topology
    files,          \* save_dir: checkpoint number k |-> content of k.pth
    pc,             \* each process's position in fit
    last_epoch,     \* fit's local last_epoch
    rng,            \* the range iterator of the for loop
    epoch,          \* fit's local `epoch` (the argument, then the loop variable)
    batch,          \* optimizer steps completed in the current training pass
    opt_steps,      \* optimizer steps completed in this invocation
    lr_steps,       \* lr_scheduler.step() calls in this invocation
    sampler_epoch,  \* last value given to train_dataloader.sampler.set_epoch
    completed,      \* last epoch whose loop body ran to its end
    saved,          \* history: the checkpoint writes of this invocation, in order
    failure,        \* what each process raised: "none", "train" or "save"
    on_device,      \* model.to(device) has been done
    wraps           \* how often each of the loaders and the model was wrapped

placevars == <<on_device, wraps>>

fitvars == <<cfg, files, pc, last_epoch, rng, epoch, batch, opt_steps, lr_steps,
             sampler_epoch, completed, saved, failure, placevars>>

VARIABLES
    vcfg,           \* the arguments of val, the checkpoint's keys, the topology
    vpc,            \* each process's position in val
    fetched,        \* how val obtained the state: "none", "remote" or "local"
    loaded,         \* the load_state_dict call val made, if any
    acc,            \* coco_evaluator: the image_ids it holds a result for
    ev,             \* history: which steps after the loop this process has taken
    stats,          \* the stats val returns
    fed             \* history: the last batch and the res handed to update(res)

valvars == <<vcfg, vpc, fetched, loaded, acc, ev, stats, fed>>

vars == <<fitvars, valvars>>

Workers == 0 .. cfg.world - 1

\* ------------------------------------------------- collaborators of fit
\* state_dict(epoch, model, ema_model): {epoch, model, ema if present}
state_dict(e, ema) == [epoch |-> e, ema |-> ema]

\* load_tuning_state(weight_path, model, ema_model): the checkpoint's epoch field
load_tuning_state(path) == files[path].epoch

\* dist.is_dist_available_and_initialized()
is_dist_available_and_initialized == cfg.distributed

\* dist.save_on_master(obj, path): only global rank 0 performs the write
is_main_process(p) == p = 0

\* torch.save(obj, path): creates or replaces the file
torch_save(fs, k, obj) == [j \in DOMAIN fs \cup {k} |-> IF j = k THEN obj ELSE fs[j]]

\* The collective gradient averaging of the wrapped model: the number of
\* collectives a process has entered so far.
Arrived(q) == opt_steps[q] + (IF pc[q] = "allreduce" THEN 1 ELSE 0)

\* Nothing wrapped yet.
NoWraps == [train_loader |-> 0, val_loader |-> 0, model |-> 0, after_device |-> FALSE]

\* ------------------------------------------------------------------- fit
FitInit ==
    /\ \E E \in 1 .. MaxEpoch, prev \in 0 .. MaxEpoch, w \in 1 .. MaxProcs,
          d \in BOOLEAN, ema \in BOOLEAN, amp \in BOOLEAN :
         \E r \in 0 .. prev :
            /\ (w > 1) => d
            /\ cfg = [epoch |-> E, weight_path |-> r, world |-> w, distributed |-> d,
                      use_ema |-> ema, use_amp |-> amp]
            /\ files = [k \in 1 .. prev |-> state_dict(k, ema)]
    /\ pc = [p \in Procs |-> IF p < cfg.world THEN "init" ELSE "off"]
    /\ last_epoch = [p \in Procs |-> 0]
    /\ rng = [p \in Procs |-> [next |-> 0, stop |-> 0]]
    /\ epoch = [p \in Procs |-> cfg.epoch]
    /\ batch = [p \in Procs |-> 0]
    /\ opt_steps = [p \in Procs |-> 0]
    /\ lr_steps = [p \in Procs |-> 0]
    /\ sampler_epoch = [p \in Procs |-> 0]
    /\ completed = [p \in Procs |-> 0]
    /\ saved = << >>
    /\ failure = [p \in Procs |-> "none"]
    /\ on_device = [p \in Procs |-> FALSE]
    /\ wraps = [p \in Procs |-> NoWraps]

\* A mutant of ResumePoint: the loaded epoch is taken as the epoch to redo.
ResumePointRedo ==
    IF cfg.weight_path # None THEN load_tuning_state(cfg.weight_path) - 1 ELSE 0

\* last_epoch = 0; if weight_path != None: last_epoch = load_tuning_state(...)
ResumePoint == IF cfg.weight_path # None THEN load_tuning_state(cfg.weight_path) ELSE 0

\* Mutants of EpochRange: the budget taken as the last epoch to train; the
\* loop started at the resume point itself.
EpochRangeInclusive(last, E) == [next |-> last + 1, stop |-> E + 1]
EpochRangeFromLast(last, E) == [next |-> last, stop |-> E]

\* range(last_epoch + 1, epoch)
EpochRange(last, E) == [next |-> last + 1, stop |-> E]

\* A mutant of Setup: the schedule is restored to the checkpoint's epoch.
SetupRestoresLr(p) ==
    /\ pc[p] = "init"
    /\ last_epoch' = [last_epoch EXCEPT ![p] = ResumePoint]
    /\ completed' = [completed EXCEPT ![p] = ResumePoint]
    /\ lr_steps' = [lr_steps EXCEPT ![p] = ResumePoint]
    /\ pc' = [pc EXCEPT ![p] = "to_device"]
    /\ UNCHANGED <<cfg, files, rng, epoch, batch, opt_steps, sampler_epoch, saved, failure>>
    /\ UNCHANGED placevars
    /\ UNCHANGED valvars

\* Lines 35-49: defaults, scaler, EMA, a fresh lr schedule, the resume point.
Setup(p) ==
    /\ pc[p] = "init"
    /\ last_epoch' = [last_epoch EXCEPT ![p] = ResumePoint]
    /\ completed' = [completed EXCEPT ![p] = ResumePoint]
    /\ lr_steps' = [lr_steps EXCEPT ![p] = 0]
    /\ pc' = [pc EXCEPT ![p] = "to_device"]
    /\ UNCHANGED <<cfg, files, rng, epoch, batch, opt_steps, sampler_epoch, saved, failure>>
    /\ UNCHANGED placevars
    /\ UNCHANGED valvars

\* Lines 51-55: model.to(device), ema_model.to(device), criterion.to(device)
ToDevice(p) ==
    /\ pc[p] = "to_device"
    /\ on_device' = [on_device EXCEPT ![p] = TRUE]
    /\ pc' = [pc EXCEPT ![p] = "wrap"]
    /\ UNCHANGED <<cfg, files, last_epoch, rng, epoch, batch, opt_steps, lr_steps,
                   sampler_epoch, completed, saved, failure, wraps>>
    /\ UNCHANGED valvars

\* warp_loader(train_dataloader), warp_loader(val_dataloader), warp_model(model)
Wrapped(w, placed) ==
    [train_loader |-> w.train_loader + 1, val_loader |-> w.val_loader + 1,
     model |-> w.model + 1, after_device |-> placed]

\* A mutant of DistWrap: the wrapping is done whether distributed or not.
DistWrapUnconditional(p) ==
    /\ pc[p] = "wrap"
    /\ wraps' = [wraps EXCEPT ![p] = Wrapped(@, on_device[p])]
    /\ rng' = [rng EXCEPT ![p] = EpochRange(last_epoch[p], epoch[p])]
    /\ pc' = [pc EXCEPT ![p] = "for"]
    /\ UNCHANGED <<cfg, files, last_epoch, epoch, batch, opt_steps, lr_steps,
                   sampler_epoch, completed, saved, failure, on_device>>
    /\ UNCHANGED valvars

\* A mutant of DistWrap: the model is left unwrapped, the loaders are wrapped.
DistWrapLoadersOnly(p) ==
    /\ pc[p] = "wrap"
    /\ wraps' = IF is_dist_available_and_initialized
                THEN [wraps EXCEPT ![p] = [Wrapped(@, on_device[p]) EXCEPT !.model = 0]]
                ELSE wraps
    /\ rng' = [rng EXCEPT ![p] = EpochRange(last_epoch[p], epoch[p])]
    /\ pc' = [pc EXCEPT ![p] = "for"]
    /\ UNCHANGED <<cfg, files, last_epoch, epoch, batch, opt_steps, lr_steps,
                   sampler_epoch, completed, saved, failure, on_device>>
    /\ UNCHANGED valvars

\* Lines 58-74: the wrapping of the two loaders and of the model when
\* distributed; then the range of the loop.
DistWrap(p) ==
    /\ pc[p] = "wrap"
    /\ wraps' = IF is_dist_available_and_initialized
                THEN [wraps EXCEPT ![p] = Wrapped(@, on_device[p])]
                ELSE wraps
    /\ rng' = [rng EXCEPT ![p] = EpochRange(last_epoch[p], epoch[p])]
    /\ pc' = [pc EXCEPT ![p] = "for"]
    /\ UNCHANGED <<cfg, files, last_epoch, epoch, batch, opt_steps, lr_steps,
                   sampler_epoch, completed, saved, failure, on_device>>
    /\ UNCHANGED valvars

\* for epoch in range(...): the next epoch, and sampler.set_epoch(epoch) when
\* distributed; or the end of the loop and the normal return of fit.
ForNext(p) ==
    /\ pc[p] = "for"
    /\ IF rng[p].next < rng[p].stop
       THEN /\ epoch' = [epoch EXCEPT ![p] = rng[p].next]
            /\ rng' = [rng EXCEPT ![p].next = @ + 1]
            /\ sampler_epoch' = IF is_dist_available_and_initialized
                                THEN [sampler_epoch EXCEPT ![p] = rng[p].next]
                                ELSE sampler_epoch
            /\ batch' = [batch EXCEPT ![p] = 0]
            /\ pc' = [pc EXCEPT ![p] = "train"]
       ELSE /\ pc' = [pc EXCEPT ![p] = "done"]
            /\ UNCHANGED <<epoch, rng, sampler_epoch, batch>>
    /\ UNCHANGED <<cfg, files, last_epoch, opt_steps, lr_steps, completed, saved, failure>>
    /\ UNCHANGED valvars
    /\ UNCHANGED placevars

\* train_one_epoch, one batch: forward and backward; a wrapped model then
\* enters the gradient averaging, an unwrapped one steps the optimizer.
TrainBatch(p) ==
    /\ pc[p] = "train"
    /\ batch[p] < NumBatches
    /\ IF wraps[p].model > 0
       THEN /\ pc' = [pc EXCEPT ![p] = "allreduce"]
            /\ UNCHANGED <<batch, opt_steps>>
       ELSE /\ batch' = [batch EXCEPT ![p] = @ + 1]
            /\ opt_steps' = [opt_steps EXCEPT ![p] = @ + 1]
            /\ pc' = pc
    /\ UNCHANGED <<cfg, files, last_epoch, rng, epoch, lr_steps, sampler_epoch,
                   completed, saved, failure>>
    /\ UNCHANGED valvars
    /\ UNCHANGED placevars

\* The gradient averaging completes once every process has entered it; the
\* optimizer step follows.
AllReduce(p) ==
    /\ pc[p] = "allreduce"
    /\ \A q \in Workers : Arrived(q) >= Arrived(p)
    /\ batch' = [batch EXCEPT ![p] = @ + 1]
    /\ opt_steps' = [opt_steps EXCEPT ![p] = @ + 1]
    /\ pc' = [pc EXCEPT ![p] = "train"]
    /\ UNCHANGED <<cfg, files, last_epoch, rng, epoch, lr_steps, sampler_epoch,
                   completed, saved, failure>>
    /\ UNCHANGED valvars
    /\ UNCHANGED placevars

\* train_one_epoch returns after its last batch.
TrainReturn(p) ==
    /\ pc[p] = "train"
    /\ batch[p] = NumBatches
    /\ pc' = [pc EXCEPT ![p] = "lr"]
    /\ UNCHANGED <<cfg, files, last_epoch, rng, epoch, batch, opt_steps, lr_steps,
                   sampler_epoch, completed, saved, failure>>
    /\ UNCHANGED valvars
    /\ UNCHANGED placevars

\* A mutant of TrainRaise: the exception is caught and the loop body goes on.
TrainRaiseSwallowed(p) ==
    /\ pc[p] = "train"
    /\ pc' = [pc EXCEPT ![p] = "lr"]
    /\ failure' = [failure EXCEPT ![p] = "train"]
    /\ UNCHANGED <<cfg, files, last_epoch, rng, epoch, batch, opt_steps, lr_steps,
                   sampler_epoch, completed, saved>>
    /\ UNCHANGED valvars
    /\ UNCHANGED placevars

\* train_one_epoch raises: fit has no handler, the exception leaves fit.
TrainRaise(p) ==
    /\ pc[p] = "train"
    /\ pc' = [pc EXCEPT ![p] = "failed"]
    /\ failure' = [failure EXCEPT ![p] = "train"]
    /\ UNCHANGED <<cfg, files, last_epoch, rng, epoch, batch, opt_steps, lr_steps,
                   sampler_epoch, completed, saved>>
    /\ UNCHANGED valvars
    /\ UNCHANGED placevars

\* A mutant of LrStep: the schedule is stepped twice in one epoch.
LrStepTwice(p) ==
    /\ pc[p] = "lr"
    /\ lr_steps' = [lr_steps EXCEPT ![p] = @ + 2]
    /\ pc' = [pc EXCEPT ![p] = "save"]
    /\ UNCHANGED <<cfg, files, last_epoch, rng, epoch, batch, opt_steps, sampler_epoch,
                   completed, saved, failure>>
    /\ UNCHANGED valvars
    /\ UNCHANGED placevars

\* lr_scheduler.step()
LrStep(p) ==
    /\ pc[p] = "lr"
    /\ lr_steps' = [lr_steps EXCEPT ![p] = @ + 1]
    /\ pc' = [pc EXCEPT ![p] = "save"]
    /\ UNCHANGED <<cfg, files, last_epoch, rng, epoch, batch, opt_steps, sampler_epoch,
                   completed, saved, failure>>
    /\ UNCHANGED valvars
    /\ UNCHANGED placevars

\* A mutant of SaveCheckpoint: torch.save called directly, on every process.
SaveCheckpointUngated(p) ==
    /\ pc[p] = "save"
    /\ files' = torch_save(files, epoch[p], state_dict(epoch[p], cfg.use_ema))
    /\ saved' = Append(saved, [file |-> epoch[p], by |-> p, epoch |-> epoch[p],
                               over |-> epoch[p] \in DOMAIN files])
    /\ completed' = [completed EXCEPT ![p] = epoch[p]]
    /\ pc' = [pc EXCEPT ![p] = "for"]
    /\ UNCHANGED <<cfg, last_epoch, rng, epoch, batch, opt_steps, lr_steps,
                   sampler_epoch, failure>>
    /\ UNCHANGED valvars
    /\ UNCHANGED placevars

\* A mutant of SaveCheckpoint: the file is named after the epoch budget.
SaveCheckpointSameFile(p) ==
    /\ pc[p] = "save"
    /\ IF is_main_process(p)
       THEN /\ files' = torch_save(files, cfg.epoch, state_dict(epoch[p], cfg.use_ema))
            /\ saved' = Append(saved, [file |-> cfg.epoch, by |-> p, epoch |-> epoch[p],
                                       over |-> cfg.epoch \in DOMAIN files])
       ELSE UNCHANGED <<files, saved>>
    /\ completed' = [completed EXCEPT ![p] = epoch[p]]
    /\ pc' = [pc EXCEPT ![p] = "for"]
    /\ UNCHANGED <<cfg, last_epoch, rng, epoch, batch, opt_steps, lr_steps,
                   sampler_epoch, failure>>
    /\ UNCHANGED valvars
    /\ UNCHANGED placevars

\* dist.save_on_master(state_dict(epoch, model, ema_model), f'{epoch}.pth'):
\* the write on rank 0, nothing on the other ranks; the loop body ends.
SaveCheckpoint(p) ==
    /\ pc[p] = "save"
    /\ IF is_main_process(p)
       THEN /\ files' = torch_save(files, epoch[p], state_dict(epoch[p], cfg.use_ema))
            /\ saved' = Append(saved, [file |-> epoch[p], by |-> p, epoch |-> epoch[p],
                                       over |-> epoch[p] \in DOMAIN files])
       ELSE UNCHANGED <<files, saved>>
    /\ completed' = [completed EXCEPT ![p] = epoch[p]]
    /\ pc' = [pc EXCEPT ![p] = "for"]
    /\ UNCHANGED <<cfg, last_epoch, rng, epoch, batch, opt_steps, lr_steps,
                   sampler_epoch, failure>>
    /\ UNCHANGED valvars
    /\ UNCHANGED placevars

\* A mutant of SaveRaise: the error is caught and the loop goes on.
SaveRaiseSwallowed(p) ==
    /\ pc[p] = "save"
    /\ is_main_process(p)
    /\ pc' = [pc EXCEPT ![p] = "for"]
    /\ failure' = [failure EXCEPT ![p] = "save"]
    /\ UNCHANGED <<cfg, files, last_epoch, rng, epoch, batch, opt_steps, lr_steps,
                   sampler_epoch, completed, saved>>
    /\ UNCHANGED valvars
    /\ UNCHANGED placevars

\* The write raises (storage failure): fit has no handler, the exception
\* leaves fit on the process that writes.
SaveRaise(p) ==
    /\ pc[p] = "save"
    /\ is_main_process(p)
    /\ pc' = [pc EXCEPT ![p] = "failed"]
    /\ failure' = [failure EXCEPT ![p] = "save"]
    /\ UNCHANGED <<cfg, files, last_epoch, rng, epoch, batch, opt_steps, lr_steps,
                   sampler_epoch, completed, saved>>
    /\ UNCHANGED valvars
    /\ UNCHANGED placevars

FitNext ==
    \E p \in Procs :
        \/ Setup(p)
        \/ ToDevice(p)
        \/ DistWrap(p)
        \/ ForNext(p)
        \/ TrainBatch(p)
        \/ AllReduce(p)
        \/ TrainReturn(p)
        \/ TrainRaise(p)
        \/ LrStep(p)
        \/ SaveCheckpoint(p)
        \/ SaveRaise(p)

\* ------------------------------------------------------------------- val
\* The weight sources explored: a remote URL, a local path, and a local path
\* with the letters "http" in a directory name.
Chars(kind, cs) == [kind |-> kind, chars |-> cs]
WeightPaths ==
    { Chars("url",   <<"h", "t", "t", "p", ":", "/", "/", "h", "/", "w">>),
      Chars("local", <<"/", "d", "/", "w">>),
      Chars("local", <<"/", "h", "t", "t", "p", "/", "w">>) }
NoPath == Chars("none", << >>)

\* Python's `sub in s` on strings
Contains(s, sub) ==
    \E i \in 1 .. Len(s) - Len(sub) + 1 : SubSeq(s, i, i + Len(sub) - 1) = sub

\* The batches a data provider yields: the image_id of each target, in order.
Batches ==
    { <<i>> : i \in ImageIds } \cup { <<i, j>> : i \in ImageIds, j \in ImageIds }

VWorkers == 0 .. vcfg.world - 1

NoEvents == [logger_synced |-> FALSE, eval_synced |-> FALSE, accumulated |-> FALSE,
             summarized |-> FALSE, returned |-> FALSE, late_update |-> FALSE]
NotLoaded == [from |-> "none", strict |-> FALSE]
EmptyAcc == {}
NoFeed == [targets |-> << >>, res |-> << >>]

ValIdle ==
    /\ vcfg = [weight_path |-> NoPath, has_ema |-> FALSE, world |-> 0]
    /\ vpc = [p \in Procs |-> "off"]
    /\ fetched = [p \in Procs |-> "none"]
    /\ loaded = [p \in Procs |-> NotLoaded]
    /\ acc = [p \in Procs |-> EmptyAcc]
    /\ ev = [p \in Procs |-> NoEvents]
    /\ stats = [p \in Procs |-> {}]
    /\ fed = NoFeed

FitIdle ==
    /\ cfg = [epoch |-> 0, weight_path |-> None, world |-> 0, distributed |-> FALSE,
              use_ema |-> FALSE, use_amp |-> FALSE]
    /\ files = [k \in {} |-> state_dict(k, FALSE)]
    /\ pc = [p \in Procs |-> "off"]
    /\ last_epoch = [p \in Procs |-> 0]
    /\ rng = [p \in Procs |-> [next |-> 0, stop |-> 0]]
    /\ epoch = [p \in Procs |-> 0]
    /\ batch = [p \in Procs |-> 0]
    /\ opt_steps = [p \in Procs |-> 0]
    /\ lr_steps = [p \in Procs |-> 0]
    /\ sampler_epoch = [p \in Procs |-> 0]
    /\ completed = [p \in Procs |-> 0]
    /\ saved = << >>
    /\ failure = [p \in Procs |-> "none"]
    /\ on_device = [p \in Procs |-> FALSE]
    /\ wraps = [p \in Procs |-> NoWraps]

ValInit ==
    /\ \E wp \in WeightPaths \cup {NoPath}, e \in BOOLEAN, w \in 1 .. MaxProcs :
         /\ (wp = NoPath) => ~e
         /\ vcfg = [weight_path |-> wp, has_ema |-> e, world |-> w]
    /\ vpc = [p \in Procs |-> IF p < vcfg.world THEN "init" ELSE "off"]
    /\ fetched = [p \in Procs |-> "none"]
    /\ loaded = [p \in Procs |-> NotLoaded]
    /\ acc = [p \in Procs |-> EmptyAcc]
    /\ ev = [p \in Procs |-> NoEvents]
    /\ stats = [p \in Procs |-> {}]
    /\ fed = NoFeed

\* Lines 95-106: defaults, eval mode, the postprocessor and the evaluator.
ValSetup(p) ==
    /\ vpc[p] = "init"
    /\ vpc' = [vpc EXCEPT ![p] = "load"]
    /\ UNCHANGED <<vcfg, fetched, loaded, acc, ev, stats, fed>>
    /\ UNCHANGED fitvars

\* torch.hub.load_state_dict_from_url(...) if 'http' in weight_path
\* else torch.load(...)
FetchKind(path) ==
    IF Contains(path.chars, <<"h", "t", "t", "p">>) THEN "remote" ELSE "local"

\* A mutant of LoadCall: the plain model weights are loaded whenever present.
LoadCallModelFirst(has_ema) == [from |-> "model", strict |-> FALSE]

\* if 'ema' in state: load state['ema']['module'] else: load state['model'];
\* strict=False in both calls
LoadCall(has_ema) ==
    IF has_ema THEN [from |-> "ema", strict |-> FALSE]
               ELSE [from |-> "model", strict |-> FALSE]

\* Lines 109-118: the optional weight loading, then device placement.
ValLoad(p) ==
    /\ vpc[p] = "load"
    /\ IF vcfg.weight_path # NoPath
       THEN /\ fetched' = [fetched EXCEPT ![p] = FetchKind(vcfg.weight_path)]
            /\ loaded' = [loaded EXCEPT ![p] = LoadCall(vcfg.has_ema)]
       ELSE UNCHANGED <<fetched, loaded>>
    /\ vpc' = [vpc EXCEPT ![p] = "loop"]
    /\ UNCHANGED <<vcfg, acc, ev, stats, fed>>
    /\ UNCHANGED fitvars

\* A mutant of Res: the first target with an image_id keeps its result.
ResFirstWins(targets) ==
    [id \in { targets[i] : i \in 1 .. Len(targets) } |->
        CHOOSE i \in 1 .. Len(targets) :
            /\ targets[i] = id
            /\ \A j \in 1 .. Len(targets) : targets[j] = id => i <= j]

\* res = {target['image_id'].item(): output for target, output in zip(targets, results)}
\* (a later entry of the comprehension replaces an earlier one with the same key;
\* the output is named by its position in the batch)
Res(targets) ==
    [id \in { targets[i] : i \in 1 .. Len(targets) } |->
        CHOOSE i \in 1 .. Len(targets) :
            /\ targets[i] = id
            /\ \A j \in 1 .. Len(targets) : targets[j] = id => j <= i]

\* coco_evaluator.update(res): the accumulator grows by the entries of res
\* (the results themselves are opaque to the evaluation pipeline)
Update(a, res) == a \cup DOMAIN res

\* A mutant of ValBatch: the metric logger is synchronised inside the loop body.
ValBatchSyncInLoop(p) ==
    /\ vpc[p] = "loop"
    /\ \E targets \in Batches :
         /\ acc' = [acc EXCEPT ![p] = Update(acc[p], Res(targets))]
         /\ fed' = [targets |-> targets, res |-> Res(targets)]
    /\ ev' = [ev EXCEPT ![p].late_update = @ \/ ev[p].logger_synced,
                        ![p].logger_synced = TRUE]
    /\ UNCHANGED <<vcfg, vpc, fetched, loaded, stats>>
    /\ UNCHANGED fitvars

\* Lines 124-135: one iteration of the loop over the data provider; the update
\* is noted as late when a synchronisation has already happened.
ValBatch(p) ==
    /\ vpc[p] = "loop"
    /\ \E targets \in Batches :
         /\ acc' = [acc EXCEPT ![p] = Update(acc[p], Res(targets))]
         /\ fed' = [targets |-> targets, res |-> Res(targets)]
    /\ ev' = [ev EXCEPT ![p].late_update = @ \/ ev[p].logger_synced \/ ev[p].eval_synced]
    /\ UNCHANGED <<vcfg, vpc, fetched, loaded, stats>>
    /\ UNCHANGED fitvars

\* The data provider is exhausted: the loop ends.
ValLoopEnd(p) ==
    /\ vpc[p] = "loop"
    /\ vpc' = [vpc EXCEPT ![p] = "sync_logger"]
    /\ UNCHANGED <<vcfg, fetched, loaded, acc, ev, stats, fed>>
    /\ UNCHANGED fitvars

\* metric_logger.synchronize_between_processes(): a collective, it completes
\* on every process once every process has left its loop and entered it.
ValSyncLogger ==
    /\ \A q \in VWorkers : vpc[q] = "sync_logger"
    /\ ev' = [p \in Procs |->
                IF p \in VWorkers THEN [ev[p] EXCEPT !.logger_synced = TRUE] ELSE ev[p]]
    /\ vpc' = [p \in Procs |-> IF p \in VWorkers THEN "sync_eval" ELSE vpc[p]]
    /\ UNCHANGED <<vcfg, fetched, loaded, acc, stats, fed>>
    /\ UNCHANGED fitvars

\* A mutant of Disjoint: a shared image_id goes unnoticed.
DisjointUnchecked(a) == \A p \in VWorkers : a[p] \subseteq ImageIds

\* The merge of the per-process mappings: their union when no image_id is in
\* two of them.
Disjoint(a) ==
    \A p \in VWorkers, q \in VWorkers : p # q => a[p] \cap a[q] = {}

Merge(a) == UNION { a[p] : p \in VWorkers }

\* coco_evaluator.synchronize_between_processes(): a collective; every process
\* ends with the merged mapping, or the merge fails on every process.
ValSyncEval ==
    /\ \A q \in VWorkers : vpc[q] = "sync_eval"
    /\ IF Disjoint(acc)
       THEN /\ acc' = [p \in Procs |-> IF p \in VWorkers THEN Merge(acc) ELSE acc[p]]
            /\ ev' = [p \in Procs |->
                        IF p \in VWorkers THEN [ev[p] EXCEPT !.eval_synced = TRUE] ELSE ev[p]]
            /\ vpc' = [p \in Procs |-> IF p \in VWorkers THEN "accumulate" ELSE vpc[p]]
       ELSE /\ vpc' = [p \in Procs |-> IF p \in VWorkers THEN "failed" ELSE vpc[p]]
            /\ UNCHANGED <<acc, ev>>
    /\ UNCHANGED <<vcfg, fetched, loaded, stats, fed>>
    /\ UNCHANGED fitvars

\* coco_evaluator.accumulate()
ValAccumulate(p) ==
    /\ vpc[p] = "accumulate"
    /\ ev' = [ev EXCEPT ![p].accumulated = TRUE]
    /\ vpc' = [vpc EXCEPT ![p] = "summarize"]
    /\ UNCHANGED <<vcfg, fetched, loaded, acc, stats, fed>>
    /\ UNCHANGED fitvars

\* coco_evaluator.summarize()
ValSummarize(p) ==
    /\ vpc[p] = "summarize"
    /\ ev' = [ev EXCEPT ![p].summarized = TRUE]
    /\ vpc' = [vpc EXCEPT ![p] = "stats"]
    /\ UNCHANGED <<vcfg, fetched, loaded, acc, stats, fed>>
    /\ UNCHANGED fitvars

\* Lines 149-157: stats['coco_eval_bbox'] = ...stats.tolist(); return
ValReturn(p) ==
    /\ vpc[p] = "stats"
    /\ stats' = [stats EXCEPT ![p] = {"coco_eval_bbox"}]
    /\ ev' = [ev EXCEPT ![p].returned = TRUE]
    /\ vpc' = [vpc EXCEPT ![p] = "done"]
    /\ UNCHANGED <<vcfg, fetched, loaded, acc, fed>>
    /\ UNCHANGED fitvars

ValNext ==
    \/ \E p \in Procs :
        \/ ValSetup(p)
        \/ ValLoad(p)
        \/ ValBatch(p)
        \/ ValLoopEnd(p)
        \/ ValAccumulate(p)
        \/ ValSummarize(p)
        \/ ValReturn(p)
    \/ ValSyncLogger
    \/ ValSyncEval

\* ------------------------------------------------------- specifications
Init == FitInit /\ ValIdle

Next == FitNext

Spec == Init /\ [][Next]_vars

InitVal == FitIdle /\ ValInit

NextVal == ValNext

SpecVal == InitVal /\ [][NextVal]_vars

\* --------------------------------------------------------------- claims
\* The checkpoint numbers written by this invocation of fit.
Written == { saved[i].file : i \in 1 .. Len(saved) }

\* Every process returned from fit normally.
AllDone == \A p \in Workers : pc[p] = "done"

\* The positions of fit inside the body of the loop.
InBody == {"train", "allreduce", "lr", "save"}

\* fit(weight_path=None, epoch=3, use_amp=False, use_ema=False), one process
Scenario1 ==
    /\ cfg.weight_path = None
    /\ cfg.epoch = 3
    /\ ~cfg.use_ema
    /\ ~cfg.use_amp
    /\ cfg.world = 1
    /\ ~cfg.distributed

\* C1: a run from scratch with epoch=3, EMA and mixed precision off, in one
\* process, has written exactly the three checkpoints 1.pth, 2.pth and 3.pth,
\* with epoch fields 1, 2 and 3, when fit returns.
C1_ThreeCheckpoints ==
    (Scenario1 /\ AllDone) =>
        /\ Len(saved) = 3
        /\ \A k \in 1 .. 3 :
            /\ saved[k].file = k
            /\ k \in DOMAIN files
            /\ files[k].epoch = k

\* fit(weight_path='2.pth', epoch=4), the checkpoint's epoch field being 2
Scenario2 ==
    /\ cfg.weight_path = 2
    /\ cfg.epoch = 4

RECURSIVE RunFinal(_, _)
RunFinal(r, last) ==
    IF r.next < r.stop THEN RunFinal([r EXCEPT !.next = @ + 1], r.next) ELSE last

\* C3: a run resumed from the checkpoint of epoch r < E and run to budget E
\* ends with the same last completed epoch as an uninterrupted run from 0
\* with budget E, and it writes no checkpoint k.pth with k <= r.
C3_ResumeEquivalent ==
    (cfg.weight_path # None /\ files[cfg.weight_path].epoch < cfg.epoch) =>
        /\ \A k \in Written : k > files[cfg.weight_path].epoch
        /\ \A p \in Workers :
             pc[p] = "done" => completed[p] = RunFinal(EpochRange(0, cfg.epoch), 0)

C3_Witness ==
    /\ cfg.weight_path = 1
    /\ cfg.epoch = 4
    /\ AllDone
    /\ Len(saved) = 2
    /\ completed[0] = 3

\* C4: only global rank 0 writes a checkpoint; no checkpoint file is written
\* by two processes.
C4_SingleWriter ==
    \A i \in 1 .. Len(saved) :
        /\ saved[i].by = 0
        /\ \A j \in 1 .. Len(saved) :
             saved[i].file = saved[j].file => saved[i].by = saved[j].by

\* A second process has gone through the save of an epoch rank 0 wrote.
C4_Witness ==
    /\ cfg.world > 1
    /\ Len(saved) >= 1
    /\ completed[1] >= saved[1].file
    /\ completed[1] > last_epoch[1]

\* The first epoch a run trains.
FirstEpoch == IF cfg.weight_path = None THEN 1 ELSE files[cfg.weight_path].epoch + 1

\* C5: the first epoch trained is the loaded epoch field + 1 (1 without a
\* checkpoint), each later iteration trains the previous epoch + 1, and every
\* checkpoint written to k.pth carries the epoch field k of the epoch just
\* trained.
C5_EpochSteps ==
    [][ /\ \A p \in Workers :
            (pc[p] = "for" /\ pc'[p] = "train") =>
                epoch'[p] = (IF lr_steps[p] = 0 THEN FirstEpoch ELSE epoch[p] + 1)
        /\ \A p \in Workers :
            (pc[p] = "save" /\ pc'[p] = "for" /\ saved' # saved) =>
                /\ saved'[Len(saved')].file = epoch[p]
                /\ saved'[Len(saved')].epoch = epoch[p]
                /\ files'[epoch[p]].epoch = epoch[p]
      ]_vars

C5_Witness ==
    /\ cfg.weight_path = 1
    /\ Len(saved) = 2
    /\ saved[1].file = 2
    /\ saved[2].file = 3
    /\ files[3].epoch = 3

\* C6 (as stated): every checkpoint is written at most once, in strictly
\* increasing order, and no file present in save_dir, from this run or from a
\* previous one, is overwritten or deleted.
C6_Original ==
    /\ \A i \in 1 .. Len(saved), j \in 1 .. Len(saved) :
         i < j => saved[i].file < saved[j].file
    /\ \A i \in 1 .. Len(saved) : ~saved[i].over

\* C6 (amended): every checkpoint is written at most once per run, in
\* strictly increasing order; no file is deleted, no file written earlier in
\* this run is overwritten, and a file left by a previous run is replaced
\* only when this run trains its epoch (a number above the resume point and
\* below the budget).
C6_WriteOnce ==
    [][ /\ \A i \in 1 .. Len(saved'), j \in 1 .. Len(saved') :
             i < j => saved'[i].file < saved'[j].file
        /\ DOMAIN files \subseteq DOMAIN files'
        /\ \A k \in DOMAIN files :
             files'[k] # files[k] \/ (saved' # saved /\ saved'[Len(saved')].file = k) =>
                /\ k \notin Written
                /\ k > cfg.weight_path
                /\ k < cfg.epoch
      ]_vars

\* A file left by a previous run has been replaced.
C6_Witness ==
    /\ Len(saved) >= 2
    /\ saved[1].over
    /\ ~saved[2].over

\* C7: once train_one_epoch has raised on a process during epoch e, that
\* invocation of fit is over: no retry, no lr step for e, no checkpoint e.pth
\* or later from it, no later epoch, and the checkpoints written for earlier
\* epochs stay as they are.
C7_TrainAbort ==
    [][ \A p \in Workers :
          failure[p] = "train" =>
            /\ pc[p] = "failed" /\ pc'[p] = "failed"
            /\ epoch'[p] = epoch[p]
            /\ lr_steps[p] = epoch[p] - last_epoch[p] - 1
            /\ lr_steps'[p] = lr_steps[p]
            /\ opt_steps'[p] = opt_steps[p]
            /\ \A i \in 1 .. Len(saved') : saved'[i].by = p => saved'[i].file < epoch[p]
            /\ cfg.world = 1 => (saved' = saved /\ files' = files)
            /\ \A k \in Written :
                 k < epoch[p] => (k \in DOMAIN files' /\ files'[k] = files[k])
      ]_vars

C7_Witness ==
    /\ failure[0] = "train"
    /\ epoch[0] = 3
    /\ Written = {1, 2}
    /\ lr_steps[0] = 2

\* C8 (as stated): once the checkpoint write of epoch e has failed, epoch e is
\* not counted as complete, no process is in a later epoch and no later
\* checkpoint is written.
C8_Original ==
    failure[0] = "save" =>
        /\ completed[0] < epoch[0]
        /\ \A k \in Written : k < epoch[0]
        /\ \A q \in Workers : pc[q] \in InBody => epoch[q] <= epoch[0]

\* C8 (amended): once the checkpoint write of epoch e has failed, the writing
\* process is out of fit with the error, epoch e is not counted as complete on
\* it, no checkpoint e.pth or later is written, and no process completes an
\* optimizer step of epoch e+1: another process may enter epoch e+1 but stays
\* before its first gradient averaging.
C8_SaveAbort ==
    failure[0] = "save" =>
        /\ pc[0] = "failed"
        /\ completed[0] < epoch[0]
        /\ \A k \in Written : k < epoch[0]
        /\ \A q \in Workers :
             (pc[q] \in InBody /\ epoch[q] > epoch[0]) =>
                /\ epoch[q] = epoch[0] + 1
                /\ batch[q] = 0
                /\ pc[q] \in {"train", "allreduce"}

\* Rank 0 failed to write 1.pth and rank 1 waits in epoch 2.
C8_Witness ==
    /\ failure[0] = "save"
    /\ epoch[0] = 1
    /\ cfg.world > 1
    /\ epoch[1] = 2
    /\ pc[1] = "allreduce"

\* C9: after the loading step of val: with a weight source the model holds
\* the EMA weights iff the state has an 'ema' entry and the plain weights
\* otherwise, loaded non-strictly; without a weight source nothing is loaded.
C9_WeightChoice ==
    \A p \in VWorkers :
        vpc[p] \notin {"init", "load"} =>
            IF vcfg.weight_path # NoPath
            THEN /\ loaded[p].from = (IF vcfg.has_ema THEN "ema" ELSE "model")
                 /\ ~loaded[p].strict
                 /\ fetched[p] # "none"
            ELSE /\ loaded[p] = NotLoaded
                 /\ fetched[p] = "none"

C9_Witness ==
    /\ vcfg.weight_path # NoPath
    /\ vcfg.has_ema
    /\ vpc[0] = "done"
    /\ loaded[0].from = "ema"

\* C10: on every process no accumulator update comes after a
\* synchronisation, the logger is synchronised before the accumulator, the
\* accumulator is synchronised before accumulate, accumulate comes before
\* summarize and the stats are read after summarize.
C10_ValOrder ==
    \A p \in VWorkers :
        /\ ~ev[p].late_update
        /\ ev[p].eval_synced => ev[p].logger_synced
        /\ ev[p].accumulated => ev[p].eval_synced
        /\ ev[p].summarized => ev[p].accumulated
        /\ ev[p].returned => ev[p].summarized
        /\ stats[p] # {} => ev[p].summarized
        /\ ev[p].logger_synced => vpc[p] # "loop"

C10_Witness ==
    /\ vcfg.world > 1
    /\ \A p \in VWorkers : ev[p].returned /\ acc[p] # {} /\ stats[p] # {}

\* The sizes of the per-process mappings of the processes ps, added up.
RECURSIVE SumSizes(_, _)
SumSizes(a, ps) ==
    IF ps = {} THEN 0
    ELSE LET p == CHOOSE x \in ps : TRUE
         IN  Cardinality(a[p]) + SumSizes(a, ps \ {p})

\* C11: when the per-process mappings are merged, mappings with disjoint
\* image_ids give every process a mapping whose size is the sum of their
\* sizes, and mappings that share an image_id make the merge fail on every
\* process, with no entry kept in place of another.
C11_MergeOrFail ==
    [][ ((\A q \in VWorkers : vpc[q] = "sync_eval") /\ vpc' # vpc) =>
          IF \E p \in VWorkers, q \in VWorkers : p # q /\ acc[p] \cap acc[q] # {}
          THEN \A p \in VWorkers :
                 /\ vpc'[p] = "failed"
                 /\ acc'[p] = acc[p]
                 /\ ~ev'[p].eval_synced
          ELSE \A p \in VWorkers :
                 /\ vpc'[p] = "accumulate"
                 /\ Cardinality(acc'[p]) = SumSizes(acc, VWorkers)
      ]_vars

\* Two processes held a result for the same image and the merge failed.
C11_Witness ==
    /\ vcfg.world > 1
    /\ acc[0] \cap acc[1] # {}
    /\ \A p \in VWorkers : vpc[p] = "failed" /\ ~ev[p].eval_synced

\* The optimizer steps a process has completed when the training passes of
\* its epochs up to e are over.
StepsThrough(p, e) == (e - last_epoch[p]) * NumBatches

\* C12: in each epoch e, on each process: the sampler is told e (when
\* distributed) before the training pass; the lr schedule is stepped exactly
\* once, after all optimizer steps of e and before the write; the write of
\* e.pth comes after that lr step and before the training pass of e+1; the
\* epoch given to the sampler is the one in the checkpoint name.
C12_EpochOrder ==
    [][ /\ \A p \in Workers :
            /\ (pc[p] \in InBody /\ cfg.distributed) => sampler_epoch[p] = epoch[p]
            /\ pc[p] \in {"train", "allreduce", "lr"} =>
                 /\ lr_steps[p] = epoch[p] - last_epoch[p] - 1
                 /\ \A i \in 1 .. Len(saved) :
                      saved[i].by = p => saved[i].file < epoch[p]
            /\ pc[p] = "save" => lr_steps[p] = epoch[p] - last_epoch[p]
            /\ lr_steps'[p] # lr_steps[p] =>
                 /\ pc[p] = "lr"
                 /\ lr_steps'[p] = lr_steps[p] + 1
                 /\ batch[p] = NumBatches
                 /\ opt_steps[p] = StepsThrough(p, epoch[p])
        /\ saved' # saved =>
             LET w == saved'[Len(saved')]
             IN  /\ pc[w.by] = "save"
                 /\ pc'[w.by] = "for"
                 /\ w.file = epoch[w.by]
                 /\ lr_steps[w.by] = epoch[w.by] - last_epoch[w.by]
                 /\ opt_steps[w.by] = StepsThrough(w.by, epoch[w.by])
                 /\ cfg.distributed => sampler_epoch[w.by] = w.file
      ]_vars

\* Two processes, the second epoch of the run written.
C12_Witness ==
    /\ cfg.world > 1
    /\ Len(saved) = 2
    /\ sampler_epoch[0] = saved[2].file
    /\ lr_steps[0] = 2
    /\ lr_steps[1] = 2
    /\ opt_steps[1] = StepsThrough(1, epoch[1])

\* The process has finished the set-up of fit and reached its loop.
InLoop(p) == pc[p] \in InBody \cup {"for", "done", "failed"}

\* C13: when distributed, each of the two loaders and the model is wrapped
\* exactly once, after the model is on its device and before the first
\* epoch; when not distributed nothing is wrapped and the sampler is never
\* told an epoch.
C13_WrapOnce ==
    \A p \in Workers :
        IF cfg.distributed
        THEN /\ InLoop(p) =>
                  /\ wraps[p].train_loader = 1
                  /\ wraps[p].val_loader = 1
                  /\ wraps[p].model = 1
                  /\ wraps[p].after_device
             /\ ~InLoop(p) => wraps[p] = NoWraps /\ sampler_epoch[p] = 0
             /\ wraps[p] # NoWraps => on_device[p]
        ELSE /\ wraps[p] = NoWraps
             /\ sampler_epoch[p] = 0

C13_Witness ==
    /\ cfg.distributed
    /\ pc[0] = "train"
    /\ epoch[0] = 2
    /\ wraps[0].model = 1
    /\ wraps[0].after_device

\* C14: the state is fetched remotely exactly when the weight source is a
\* remote URL, and read from the local file system exactly when it is a local
\* path, whatever characters the path contains.
C14_FetchBySource ==
    \A p \in VWorkers :
        fetched[p] # "none" =>
            /\ fetched[p] = "remote" <=> vcfg.weight_path.kind = "url"
            /\ fetched[p] = "local" <=> vcfg.weight_path.kind = "local"

\* The epoch a process is in: the one of its loop body, else the last one it
\* finished.
CurEpoch(p) == IF pc[p] \in InBody \cup {"failed"} THEN epoch[p] ELSE completed[p]

\* C15: in a multi-process run the epochs of two processes differ by at most
\* 1, and a process has completed a gradient-averaging step of an epoch k
\* after the first only when the coordinator has written (k-1).pth and has
\* entered that step itself; the write of e.pth holds back nobody's entry
\* into epoch e+1.
C15_Lockstep ==
    \A p \in Workers :
        InLoop(p) =>
            /\ \A q \in Workers :
                 InLoop(q) =>
                    /\ CurEpoch(p) - CurEpoch(q) <= 1
                    /\ CurEpoch(q) - CurEpoch(p) <= 1
            /\ Arrived(0) >= opt_steps[p]
            /\ \A k \in 1 .. cfg.epoch :
                 (k > last_epoch[p] + 1 /\ opt_steps[p] > StepsThrough(p, k - 1)) =>
                    k - 1 \in Written

\* The coordinator is about to write 1.pth while the other process is in
\* epoch 2, waiting in its first gradient averaging.
C15_Witness ==
    /\ cfg.world > 1
    /\ pc[0] = "save"
    /\ epoch[0] = 1
    /\ epoch[1] = 2
    /\ pc[1] = "allreduce"
    /\ batch[1] = 0

\* The optimizer steps of a whole run of the process (none when the budget is
\* not above the first epoch).
TotalSteps(p) ==
    IF cfg.epoch - 1 > last_epoch[p] THEN StepsThrough(p, cfg.epoch - 1) ELSE 0

\* The epoch of the next gradient averaging the process would have entered.
BarrierEpoch(p) == last_epoch[p] + 1 + (opt_steps[p] \div NumBatches)

\* C16: in a multi-process run, once a process has raised with a gradient
\* averaging still ahead of it, no other process ever completes that step,
\* steps the lr schedule or writes the checkpoint of that epoch or of a later
\* one, or returns from fit.
C16_OthersBlocked ==
    \A p \in Workers :
        (cfg.world > 1 /\ failure[p] # "none" /\ opt_steps[p] < TotalSteps(p)) =>
            /\ \A i \in 1 .. Len(saved) : saved[i].file < BarrierEpoch(p)
            /\ \A q \in Workers \ {p} :
                 /\ opt_steps[q] <= opt_steps[p]
                 /\ pc[q] # "done"
                 /\ lr_steps[q] <= BarrierEpoch(p) - last_epoch[p] - 1

\* The second process raised in the first batch of epoch 2; the coordinator
\* waits in the gradient averaging of that batch.
C16_Witness ==
    /\ cfg.world > 1
    /\ failure[1] = "train"
    /\ epoch[1] = 2
    /\ batch[1] = 0
    /\ pc[0] = "allreduce"
    /\ epoch[0] = 2
    /\ Written = {1}

\* fit under the scheduling of its processes: a process that can take a step
\* takes one.
SpecFair == Init /\ [][Next]_vars /\ WF_vars(Next)

\* The number of epochs a run trains: the budget less the first epoch.
EpochsToTrain == IF cfg.epoch > FirstEpoch THEN cfg.epoch - FirstEpoch ELSE 0

\* C17: a run in which nothing fails ends with every process returned from
\* fit, having trained exactly max(0, E - r - 1) epochs, r+1 .. E-1, the
\* coordinator having written exactly (r+1).pth .. (E-1).pth in that order;
\* with E <= r + 1 nothing is trained or written and fit still returns.
C17_ExactRun ==
    /\ [](\A p \in Workers :
            pc[p] = "done" =>
                /\ lr_steps[p] = EpochsToTrain
                /\ opt_steps[p] = EpochsToTrain * NumBatches
                /\ completed[p] = FirstEpoch - 1 + EpochsToTrain)
    /\ [](AllDone =>
            /\ Len(saved) = EpochsToTrain
            /\ \A i \in 1 .. Len(saved) :
                 /\ saved[i].file = FirstEpoch - 1 + i
                 /\ saved[i].by = 0)
    /\ <>(AllDone \/ \E p \in Workers : failure[p] # "none")

\* A run resumed at its budget: nothing trained, nothing written, returned.
C17_Witness ==
    /\ cfg.weight_path = 3
    /\ cfg.epoch = 3
    /\ AllDone
    /\ saved = << >>
    /\ lr_steps[0] = 0

\* The last epoch whose lr_scheduler.step() a process has executed.
LrEpoch(p) == IF pc[p] = "save" \/ failure[p] = "save" THEN epoch[p] ELSE completed[p]

\* C18: the schedule of an invocation starts at step 0 and is stepped once per
\* epoch trained in it, so that after epoch e of a run resumed from r it has
\* advanced e - r times; no checkpoint file carries the schedule.
C18_FreshSchedule ==
    /\ \A p \in Workers : lr_steps[p] = LrEpoch(p) - last_epoch[p]
    /\ \A k \in DOMAIN files : DOMAIN files[k] = {"epoch", "ema"}

\* A run resumed from epoch 2 has completed epoch 3 with one schedule step.
C18_Witness ==
    /\ cfg.weight_path = 2
    /\ last_epoch[0] = 2
    /\ completed[0] = 3
    /\ pc[0] = "for"
    /\ lr_steps[0] = 1
    /\ 3 \in DOMAIN files

\* C19: the res handed to the accumulator for a batch has one entry per
\* distinct image_id of the batch, the entry of an image_id being the result
\* at the position of the last target that carries it; the update leaves
\* every process where it was, in its loop, so a repeated image_id raises
\* nothing and res can have fewer entries than the batch has images.
C19_LastWins ==
    /\ [](LET t == fed.targets
              r == fed.res
          IN  /\ DOMAIN r = { t[i] : i \in 1 .. Len(t) }
              /\ Cardinality(DOMAIN r) <= Len(t)
              /\ \A id \in DOMAIN r :
                   /\ r[id] \in 1 .. Len(t)
                   /\ t[r[id]] = id
                   /\ \A j \in 1 .. Len(t) : t[j] = id => j <= r[id])
    /\ [][fed' # fed => vpc' = vpc]_vars

\* A batch of two targets with one image_id fed one result, the second, and
\* val went on to return.
C19_Witness ==
    /\ fed.targets = <<1, 1>>
    /\ DOMAIN fed.res = {1}
    /\ fed.res[1] = 2
    /\ \E p \in VWorkers : vpc[p] = "done" /\ acc[p] = {1}

====
